---- MODULE Spec2Model ----
(***************************************************************************)
(* A model of goscript (src/main.go): the command store on disk, the build *)
(* orchestrator (compileBinary / goGet), the execution launcher with its   *)
(* signal listener, and the import resolver of assembleSourceFile.         *)
(*                                                                         *)
(* Files are sequences of lines.  A file that may be absent is a set that  *)
(* holds at most one such sequence: {} is "no such file".                  *)
(***************************************************************************)
EXTENDS Integers, Sequences, FiniteSets, TLC

(* ------------------------------ bounds --------------------------------- *)

\* number of distinct code lines a source may consist of
MaxContent == 2

\* longest list of `go get <path>` matches in one compiler diagnostic
MaxMatches == 2

\* child exit codes are 0..MaxExit
MaxExit == 2

\* longest code fragment handed to the import resolver, in characters
MaxLen == 5

\* how often one process resolves a fragment
MaxResolves == 2

(* ------------------------------ names ---------------------------------- *)

\* user-supplied command names (--name, --delete, --restore, --export)
Names == {"foo"}

\* the generated name gocmd-<nanos> of an invocation without --name
TmpName == "gocmd"

AllNames == Names \cup {TmpName}

\* An identifier and a path segment are sequences of characters; an import
\* path is the sequence of its segments ("a/x" is <<<<"a">>, <<"x">>>>), and
\* the empty string is the empty sequence.

\* import paths the compiler may report as missing: "a/x" and "b/x"
PkgPaths == {<< <<"a">>, <<"x">> >>, << <<"b">>, <<"x">> >>}

(* ------------------------------ files ---------------------------------- *)

ShebangLine == [bang |-> TRUE, id |-> 0]

CodeLine(i) == [bang |-> FALSE, id |-> i]

\* strings.HasPrefix(line, "#!")
HasShebangPrefix(line) == line.bang

\* readSourceFile: every line that does not start with "#!", in order
ReadSourceFile(f) == SelectSeq(f, LAMBDA l : ~HasShebangPrefix(l))

\* the files handed to --file: a plain source, or a script with a shebang
InputFiles ==
    {<<CodeLine(i)>> : i \in 1..MaxContent}
        \cup {<<ShebangLine, CodeLine(i)>> : i \in 1..MaxContent}

\* checkFileExists / os.Stat on a file of the store
Exists(f) == f # {}

Content(f) == CHOOSE c \in f : TRUE

\* filepath.Base of a non-empty import path
Base(p) == p[Len(p)]

\* the lists of matches of `go get (.+)` a failed compiler run can print
Diagnostics ==
    UNION {[1..k -> PkgPaths] : k \in 1..MaxMatches}

(* ------------------------------ state ---------------------------------- *)

VARIABLES
    srcGo,        \* srcGo[n]: <project>/src/<n>.go
    srcBare,      \* srcBare[n]: <project>/src/<n>  (soft-deleted source)
    bin,          \* bin[n]: <project>/bin/<n>, holding the source it was built from
    userImports,  \* imports.json: alias -> import path
    cmd,          \* the running invocation: [kind, name, temp, exec]
    pc,           \* position of the main goroutine
    buf,          \* the global buf
    out,          \* what the invocation has written to stdout
    errs,         \* diagnostics the invocation has written to stderr
    exitCode,     \* {} while the process runs, {c} once it has ended with code c
    code,         \* the exit code the main goroutine is about to pass to os.Exit
    cb,           \* compileBinary: [retried, batch, fetched, last, ret]
    lis,          \* position of the signal-listener goroutine
    sig,          \* [seen: the parent got a signal, caught: signal.Notify took it,
                  \*  pending: it waits in channel c, midRun: the child was running]
    child,        \* the child process: [st, code]
    hist,         \* history: the store as the invocation found it, the last delete
    builtin,      \* util.ImportsMap as compiled into the program
    importsMap,   \* util.ImportsMap, the process-wide alias table
    fragment,     \* the code fragment handed to assembleSourceFile
    formattedImports, \* the import list assembleSourceFile built
    resolves,     \* how often this process has resolved a fragment
    savedErrors,  \* the global savedErrors
    arg,          \* the --file or --code argument: [way, text]
    unit,         \* the rendered source unit: [lines, st]
    gets,         \* history: the goGet call made last, [n, pkg, ok, before]
    term,         \* the terminal's input: [text, pos]
    fwd           \* the line-forwarding goroutine: [st, written]

fsVars == <<srcGo, srcBare, bin>>

asmVars == <<builtin, importsMap, fragment, formattedImports, resolves>>

auxVars == <<savedErrors, arg, unit, gets, term, fwd>>

vars ==
    <<srcGo, srcBare, bin, userImports, cmd, pc, buf, out, errs, exitCode, code,
      cb, lis, sig, child, hist, builtin, importsMap, fragment, formattedImports,
      resolves, savedErrors, arg, unit, gets, term, fwd>>

NoCmd == [kind |-> "none", name |-> "", temp |-> FALSE, exec |-> FALSE, input |-> {}]

NoCb == [retried |-> FALSE, batch |-> <<>>, fetched |-> <<>>, last |-> "none", ret |-> "none"]

NoSig == [pending |-> FALSE, seen |-> FALSE, caught |-> FALSE, midRun |-> FALSE]

NoChild == [st |-> "none", code |-> 0]

\* the store of a project that holds no file
NoStore ==
    [src |-> [n \in AllNames |-> {}], bare |-> [n \in AllNames |-> {}],
     bin |-> [n \in AllNames |-> {}]]

NoHist ==
    [pre |-> [src |-> {}, bare |-> {}, bin |-> {}], lastDel |-> {}, roundTrip |-> FALSE,
     store |-> NoStore]

NoArg == [way |-> "none", text |-> <<>>]

NoUnit == [lines |-> <<>>, st |-> "none"]

NoGets == [n |-> 0, pkg |-> <<>>, ok |-> FALSE, before |-> <<>>]

NoTerm == [text |-> <<>>, pos |-> 0]

NoFwd == [st |-> "none", written |-> <<>>]

\* the parts of the state a run of the command store does not use
AuxInit ==
    /\ savedErrors = <<>>
    /\ arg = NoArg
    /\ unit = NoUnit
    /\ gets = NoGets
    /\ term = NoTerm
    /\ fwd = NoFwd

\* util.ImportsMap as a process of the store finds it: "x" -> "a/x"
BaseTable == (<<"x">> :> << <<"a">>, <<"x">> >>)

Init ==
    /\ srcGo = [n \in AllNames |-> {}]
    /\ srcBare = [n \in AllNames |-> {}]
    /\ bin = [n \in AllNames |-> {}]
    /\ userImports = <<>>
    /\ cmd = NoCmd
    /\ pc = "idle"
    /\ buf = <<>>
    /\ out = <<>>
    /\ errs = {}
    /\ exitCode = {}
    /\ code = 0
    /\ cb = NoCb
    /\ lis = "off"
    /\ sig = NoSig
    /\ child = NoChild
    /\ hist = NoHist
    /\ builtin = BaseTable
    /\ importsMap = BaseTable
    /\ fragment = <<>>
    /\ formattedImports = <<>>
    /\ resolves = 0
    /\ AuxInit

(* --------------------------- process control --------------------------- *)

Running == pc \notin {"idle", "done"}

\* os.Exit(c), from either goroutine: the whole process ends
ProcessExit(c) ==
    /\ pc' = "done"
    /\ exitCode' = {c}
    /\ code' = c
    /\ lis' = "off"

\* The process has ended and its exit status has been taken.  Nothing of it is
\* left but the files and, for the history, which command it was.  The name the
\* next process may generate (line 751, from the clock) is new, so files left
\* under the generated name of this one are not tracked any further.
ProcessGone ==
    /\ pc = "done"
    /\ pc' = "idle"
    /\ cmd' = [NoCmd EXCEPT !.kind = IF cmd.kind \in {"delete", "export"} THEN cmd.kind
                                     ELSE "none"]
    /\ hist' = [NoHist EXCEPT !.lastDel = IF cmd.kind \in {"delete", "export"}
                                          THEN hist.lastDel ELSE {}]
    /\ buf' = <<>>
    /\ out' = <<>>
    /\ errs' = {}
    /\ exitCode' = {}
    /\ code' = 0
    /\ cb' = NoCb
    /\ lis' = "off"
    /\ sig' = NoSig
    /\ child' = NoChild
    /\ srcGo' = [srcGo EXCEPT ![TmpName] = {}]
    /\ bin' = [bin EXCEPT ![TmpName] = {}]
    /\ UNCHANGED <<srcBare, userImports, asmVars, auxVars>>

\* main, lines 465-592: a new process parses its flags.  The store is what the
\* previous invocations left.
Start ==
    /\ pc = "idle"
    /\ \E k \in {"build", "delete", "restore", "export", "list", "recompile"},
          n \in Names \cup {""},
          x \in BOOLEAN,
          f \in {{}} \cup {{i} : i \in InputFiles} :
          /\ k = "build" => (f # {} \/ n # "")
          /\ k \in {"delete", "restore", "export"} => (n # "" /\ ~x /\ f = {})
          /\ k \in {"list", "recompile"} => (n = "" /\ ~x /\ f = {})
          /\ cmd' = [kind |-> k, name |-> n, temp |-> FALSE, exec |-> x, input |-> f]
          /\ hist' =
                LET keep == /\ k = "restore"
                            /\ cmd.kind \in {"delete", "export"}
                            /\ \E d \in hist.lastDel : d.name = n
                IN  [pre |-> IF n = "" THEN NoHist.pre
                             ELSE [src |-> srcGo[n], bare |-> srcBare[n], bin |-> bin[n]],
                     lastDel |-> IF keep THEN hist.lastDel ELSE {},
                     roundTrip |-> keep,
                     store |-> IF k = "recompile"
                               THEN [src |-> srcGo, bare |-> srcBare, bin |-> bin]
                               ELSE NoStore]
    /\ pc' = "main"
    /\ buf' = <<>>
    /\ out' = <<>>
    /\ errs' = {}
    /\ exitCode' = {}
    /\ code' = 0
    /\ cb' = NoCb
    /\ lis' = "off"
    /\ sig' = NoSig
    /\ child' = NoChild
    /\ UNCHANGED <<fsVars, userImports, asmVars, auxVars>>

(* ------------------------------ build path ----------------------------- *)

\* main, lines 732-755: pick the fragment, then the name to build under.  The
\* buffer of a --code invocation is a plain source as well; how its import list
\* comes about is the subject of SpecImports below.
BuildRead ==
    /\ pc = "main"
    /\ cmd.kind = "build"
    /\ LET named == cmd.name # ""
           stored == IF named THEN srcGo[cmd.name] ELSE {}
           from == IF cmd.input # {} THEN cmd.input ELSE stored
       IN  IF from = {}
           THEN \* readSourceFile: os.Open fails, check(err, 2, "")
                /\ errs' = errs \cup {"open"}
                /\ ProcessExit(1)
                /\ UNCHANGED <<buf, cmd>>
           ELSE /\ buf' = ReadSourceFile(Content(from))
                /\ cmd' = IF named THEN [cmd EXCEPT !.input = {}]
                          ELSE [cmd EXCEPT !.name = TmpName, !.temp = TRUE, !.input = {}]
                /\ pc' = "write"
                /\ UNCHANGED <<errs, exitCode, code, lis>>
    /\ UNCHANGED <<fsVars, userImports, out, cb, sig, child, hist, asmVars, auxVars>>

\* writeSourceFile(srcFilename, buf), line 757
WriteSource ==
    /\ pc = "write"
    /\ srcGo' = [srcGo EXCEPT ![cmd.name] = {buf}]
    /\ pc' = "compile"
    /\ UNCHANGED <<srcBare, bin, userImports, cmd, buf, out, errs, exitCode, code,
                   cb, lis, sig, child, hist, asmVars, auxVars>>

(* ---------------------------- compileBinary ---------------------------- *)

\* `go build -o bin/<n> src/<n>.go` succeeding (line 332): the binary
\* directory afterwards
Built(n) == [bin EXCEPT ![n] = srcGo[n]]

\* compileBinary, lines 344-351: what the top-level call returns.  The result
\* of the recursive call of line 344 is dropped and line 351 returns true.
TopLevelReturn(retried, ok) == IF retried THEN TRUE ELSE ok

\* main, lines 758-765 and 796-798: where a build goes once compileBinary has
\* returned ret: <<position, exit code>>
BuildNext(ret) ==
    IF ~ret
    THEN IF cmd.temp THEN <<"chkSrc", 1>> ELSE <<"exit", 1>>
    ELSE IF cmd.exec THEN <<"register", 0>>
         ELSE IF cmd.temp THEN <<"chkSrc", 0>> ELSE <<"exit", 0>>

\* restoreCommand, line 313, and main, line 729: the result is not looked at
RestoreNext(ret) == <<"exit", 0>>

\* recompileCommands, lines 325-327: os.Exit(1) on false, else the next entry
RecompileNext(ret) == IF ret THEN <<"recompile", 0>> ELSE <<"exit", 1>>

CallerNext(ret) ==
    CASE cmd.kind = "restore" -> RestoreNext(ret)
      [] cmd.kind = "recompile" -> RecompileNext(ret)
      [] OTHER -> BuildNext(ret)

\* compileBinary returns ret to main or to restoreCommand
CompileReturn(ret) ==
    LET nx == CallerNext(ret)
    IN  /\ pc' = nx[1]
        /\ code' = nx[2]

\* compileBinary, lines 332-352: one run of `go build -o bin src`.  The compiler
\* is the environment's: it builds the binary, or fails with a diagnostic that
\* names missing packages, or fails with any other diagnostic.
Compile ==
    /\ pc = "compile"
    /\ \/ \* the build succeeds
          /\ bin' = Built(cmd.name)
          /\ cb' = [cb EXCEPT !.last = "ok", !.batch = <<>>, !.fetched = <<>>,
                              !.ret = IF TopLevelReturn(cb.retried, TRUE) THEN "true" ELSE "false"]
          /\ CompileReturn(TopLevelReturn(cb.retried, TRUE))
          /\ UNCHANGED errs
       \/ \* it fails and the output has no `go get` match: check(err, 1, out)
          /\ errs' = errs \cup {"compile"}
          /\ cb' = [cb EXCEPT !.last = "final", !.batch = <<>>, !.fetched = <<>>,
                              !.ret = IF TopLevelReturn(cb.retried, FALSE) THEN "true" ELSE "false"]
          /\ CompileReturn(TopLevelReturn(cb.retried, FALSE))
          /\ UNCHANGED bin
       \/ \* it fails and the output has matches: fetch each, then build again
          /\ \E d \in Diagnostics :
                cb' = [cb EXCEPT !.last = "missing", !.batch = d, !.fetched = <<>>]
          /\ pc' = "fetch"
          /\ UNCHANGED <<bin, errs, code>>
    /\ UNCHANGED <<srcGo, srcBare, userImports, cmd, buf, out, exitCode, lis, sig,
                   child, hist, asmVars, auxVars>>

\* the table rewritten with the new entry alone
GoGetTableFresh(table, pkg) == (Base(pkg) :> pkg)

\* goGet, lines 139-146: the table read from imports.json, with the entry
\* <final segment of pkg> -> pkg set, as it is written back
GoGetTable(table, pkg) == (Base(pkg) :> pkg) @@ table

\* the loop fetching its first match again and again
NextMatchFirst(batch, fetched) == batch[1]

\* compileBinary, lines 340-343: the match the loop fetches next
NextMatch(batch, fetched) == batch[Len(fetched) + 1]

\* goGet(pkg), lines 122-147, called from the loop of lines 340-343; after the
\* last match, line 344 builds again.
Fetch ==
    /\ pc = "fetch"
    /\ LET pkg == NextMatch(cb.batch, cb.fetched)
           got == Append(cb.fetched, pkg)
       IN  \/ \* go.mod cannot be read, tidy fails or go get fails: check(err, 2, ..)
              /\ errs' = errs \cup {"goget"}
              /\ cb' = [cb EXCEPT !.fetched = got]
              /\ ProcessExit(1)
              /\ UNCHANGED userImports
           \/ \* go get succeeds: imports.json is rewritten with the new alias
              /\ userImports' = GoGetTable(userImports, pkg)
              /\ cb' = [cb EXCEPT !.fetched = got,
                                  !.retried = IF got = cb.batch THEN TRUE ELSE cb.retried]
              /\ pc' = IF got = cb.batch THEN "compile" ELSE "fetch"
              /\ UNCHANGED <<errs, exitCode, code, lis>>
    /\ UNCHANGED <<fsVars, cmd, buf, out, sig, child, hist, asmVars, auxVars>>

(* --------------------------- cleanTemporaryFiles ----------------------- *)

CleanPcs == {"chkSrc", "rmSrc", "chkBin", "rmBin"}

\* cleanTemporaryFiles(name), lines 414-425, one file-system call at a time:
\* a goroutine at p moves to q, and to fin when the function returns
CleanTemporaryFiles(p, q, fin) ==
    \/ /\ p = "chkSrc"
       /\ q = IF Exists(srcGo[cmd.name]) THEN "rmSrc" ELSE "chkBin"
       /\ UNCHANGED <<fsVars, errs>>
    \/ /\ p = "rmSrc"
       /\ q = "chkBin"
       /\ srcGo' = [srcGo EXCEPT ![cmd.name] = {}]
       /\ errs' = IF Exists(srcGo[cmd.name]) THEN errs ELSE errs \cup {"remove"}
       /\ UNCHANGED <<srcBare, bin>>
    \/ /\ p = "chkBin"
       /\ q = IF Exists(bin[cmd.name]) THEN "rmBin" ELSE fin
       /\ UNCHANGED <<fsVars, errs>>
    \/ /\ p = "rmBin"
       /\ q = fin
       /\ bin' = [bin EXCEPT ![cmd.name] = {}]
       /\ errs' = IF Exists(bin[cmd.name]) THEN errs ELSE errs \cup {"remove"}
       /\ UNCHANGED <<srcGo, srcBare>>

\* the main goroutine in cleanTemporaryFiles (lines 760, 786, 792, 797)
MainClean ==
    /\ pc \in CleanPcs
    /\ CleanTemporaryFiles(pc, pc', "exit")
    /\ UNCHANGED <<userImports, cmd, buf, out, exitCode, code, cb, lis, sig, child,
                   hist, asmVars, auxVars>>

\* os.Exit(code) of the main goroutine (lines 762, 788, 794), or main returning
MainExit ==
    /\ pc = "exit"
    /\ ProcessExit(code)
    /\ UNCHANGED <<fsVars, userImports, cmd, buf, out, errs, cb, sig, child, hist,
                   asmVars, auxVars>>

(* --------------------------- execution launcher ------------------------ *)

\* the parent telling only success from failure
ParentExitCodeFlat(c) == IF c = 0 THEN 0 ELSE 1

\* os.Exit(cmd.ProcessState.ExitCode()), line 794: the status the parent ends
\* with for a child code c (-1 when the child was ended by a signal)
ParentExitCode(c) == c % 256

\* main, lines 765-775: signal.Notify and the start of the listener goroutine
Register ==
    /\ pc = "register"
    /\ lis' = "wait"
    /\ pc' = "start"
    /\ UNCHANGED <<fsVars, userImports, cmd, buf, out, errs, exitCode, code, cb, sig,
                   child, hist, asmVars, auxVars>>

\* main, lines 778-789: cmd.Start() of bin/<name>
StartChild ==
    /\ pc = "start"
    /\ IF Exists(bin[cmd.name])
       THEN /\ child' = [st |-> "running", code |-> 0]
            /\ pc' = "wait"
            /\ UNCHANGED <<errs, code>>
       ELSE /\ errs' = errs \cup {"start"}
            /\ code' = 1
            /\ pc' = IF cmd.temp THEN "chkSrc" ELSE "exit"
            /\ UNCHANGED child
    /\ UNCHANGED <<fsVars, userImports, cmd, buf, out, exitCode, cb, lis, sig, hist,
                   asmVars, auxVars>>

\* the child ends: with a code of its own, or, when the signal sent to the
\* process group reached it too, by that signal
ChildExit ==
    /\ Running
    /\ child.st = "running"
    /\ \/ \E c \in 0..MaxExit : child' = [st |-> "exited", code |-> c]
       \/ /\ sig.seen
          /\ child' = [st |-> "signaled", code |-> -1]
    /\ UNCHANGED <<fsVars, userImports, cmd, pc, buf, out, errs, exitCode, code, cb,
                   lis, sig, hist, asmVars, auxVars>>

\* main, lines 790-794: cmd.Wait() returns
Wait ==
    /\ pc = "wait"
    /\ child.st \in {"exited", "signaled"}
    /\ code' = ParentExitCode(child.code)
    /\ pc' = IF cmd.temp THEN "chkSrc" ELSE "exit"
    /\ UNCHANGED <<fsVars, userImports, cmd, buf, out, errs, exitCode, cb, lis, sig,
                   child, hist, asmVars, auxVars>>

\* an interrupt or termination signal reaches a building process.  Before
\* signal.Notify (line 768) the signal ends the process at once (SIGINT: status
\* 128 + 2); after it the signal is put into channel c.
Signal ==
    /\ Running
    /\ cmd.kind = "build"
    /\ ~sig.seen
    /\ IF lis = "off"
       THEN /\ ProcessExit(130)
            /\ sig' = [pending |-> FALSE, seen |-> TRUE, caught |-> FALSE,
                       midRun |-> FALSE]
       ELSE /\ sig' = [pending |-> TRUE, seen |-> TRUE, caught |-> TRUE,
                       midRun |-> child.st = "running"]
            /\ UNCHANGED <<pc, exitCode, code, lis>>
    /\ UNCHANGED <<fsVars, userImports, cmd, buf, out, errs, cb, child, hist, asmVars, auxVars>>

\* the listener goroutine, lines 769-771: <-c
ListenerRecv ==
    /\ Running
    /\ lis = "wait"
    /\ sig.pending
    /\ sig' = [sig EXCEPT !.pending = FALSE]
    /\ lis' = IF cmd.temp THEN "chkSrc" ELSE "exit"
    /\ UNCHANGED <<fsVars, userImports, cmd, pc, buf, out, errs, exitCode, code, cb,
                   child, hist, asmVars, auxVars>>

\* the listener goroutine in cleanTemporaryFiles, line 772
ListenerClean ==
    /\ Running
    /\ lis \in CleanPcs
    /\ CleanTemporaryFiles(lis, lis', "exit")
    /\ UNCHANGED <<userImports, cmd, pc, buf, out, exitCode, code, cb, sig, child,
                   hist, asmVars, auxVars>>

\* the listener goroutine, line 774: os.Exit(1)
ListenerExit ==
    /\ Running
    /\ lis = "exit"
    /\ ProcessExit(1)
    /\ UNCHANGED <<fsVars, userImports, cmd, buf, out, errs, cb, sig, child, hist,
                   asmVars, auxVars>>

(* ------------------------------ command store -------------------------- *)

\* a copy in place of the rename: the file stays at its old path
RenamedCopy(from, to, n) == <<from, [to EXCEPT ![n] = from[n]]>>

\* os.Rename of an existing file (lines 299 and 311): the directory listings
\* <<from, to>> afterwards; a file already at the new path is replaced
Renamed(from, to, n) == <<[from EXCEPT ![n] = {}], [to EXCEPT ![n] = from[n]]>>

\* deleteCommand(cmd), lines 295-304, called by --delete (line 722) and by
\* --export (line 707).  A failed rename or remove is reported (check level 1)
\* and the function goes on; a failed `go mod tidy` ends the process.
DeleteCommand ==
    /\ \/ pc = "main" /\ cmd.kind = "delete"
       \/ pc = "delete"
    /\ LET n == cmd.name
           renamed == Exists(srcGo[n])
           removed == Exists(bin[n])
           said == (IF renamed THEN {} ELSE {"rename"})
                       \cup (IF removed THEN {} ELSE {"remove"})
       IN  /\ srcGo' = IF renamed THEN Renamed(srcGo, srcBare, n)[1] ELSE srcGo
           /\ srcBare' = IF renamed THEN Renamed(srcGo, srcBare, n)[2] ELSE srcBare
           /\ bin' = [bin EXCEPT ![n] = {}]
           /\ hist' = [hist EXCEPT !.lastDel =
                          IF renamed /\ removed
                          THEN {[name |-> n, content |-> Content(srcGo[n])]}
                          ELSE {}]
           /\ \/ \* goTidy succeeds; main returns
                 /\ errs' = errs \cup said
                 /\ pc' = "exit"
                 /\ code' = 0
                 /\ UNCHANGED <<exitCode, lis>>
              \/ \* goTidy fails: check(err, 2, ..)
                 /\ errs' = errs \cup said \cup {"tidy"}
                 /\ ProcessExit(1)
    /\ UNCHANGED <<userImports, cmd, buf, out, cb, sig, child, asmVars, auxVars>>

\* restoreCommand(cmd), lines 307-312; line 313 is Compile
RestoreCommand ==
    /\ pc = "main"
    /\ cmd.kind = "restore"
    /\ LET n == cmd.name
       IN  IF Exists(srcBare[n])
           THEN /\ srcBare' = Renamed(srcBare, srcGo, n)[1]
                /\ srcGo' = Renamed(srcBare, srcGo, n)[2]
                /\ pc' = "compile"
                /\ UNCHANGED <<errs, exitCode, code, lis>>
           ELSE /\ errs' = errs \cup {"rename"}
                /\ ProcessExit(1)
                /\ UNCHANGED <<srcGo, srcBare>>
    /\ UNCHANGED <<bin, userImports, cmd, buf, out, cb, sig, child, hist, asmVars, auxVars>>

\* main, lines 701-706: --export reads the source and prints it after the
\* interpreter-directive line; line 707 is DeleteCommand
ExportPrint ==
    /\ pc = "main"
    /\ cmd.kind = "export"
    /\ IF Exists(srcGo[cmd.name])
       THEN /\ buf' = ReadSourceFile(Content(srcGo[cmd.name]))
            /\ out' = <<ShebangLine>> \o ReadSourceFile(Content(srcGo[cmd.name]))
            /\ pc' = "delete"
            /\ UNCHANGED <<errs, exitCode, code, lis>>
       ELSE /\ errs' = errs \cup {"open"}
            /\ ProcessExit(1)
            /\ UNCHANGED <<buf, out>>
    /\ UNCHANGED <<fsVars, userImports, cmd, cb, sig, child, hist, asmVars, auxVars>>

\* the command names in the order sort.Strings gives their file names
NameOrder == <<"foo", "gocmd">>

\* getSourceList, lines 280-292: the file names of src/, sorted; a file name is
\* a name and an extension, and "<n>" sorts before "<n>.go"
GetSourceList ==
    LET entries(n) ==
            (IF Exists(srcBare[n]) THEN <<[name |-> n, ext |-> ""]>> ELSE <<>>)
                \o (IF Exists(srcGo[n]) THEN <<[name |-> n, ext |-> ".go"]>> ELSE <<>>)
        upto[i \in 0..Len(NameOrder)] ==
            IF i = 0 THEN <<>> ELSE upto[i - 1] \o entries(NameOrder[i])
    IN  upto[Len(NameOrder)]

\* the test of line 633 without its negation
HasGoSuffixInverted(e) == e.ext # ".go"

\* strings.HasSuffix(cmd, ".go")
HasGoSuffix(e) == e.ext = ".go"

\* main, lines 630-640: the lines --list prints for the file names in cmds
ListLines(cmds) ==
    [i \in 1..Len(cmds) |->
        IF ~HasGoSuffix(cmds[i])
        THEN [name |-> cmds[i].name, restore |-> TRUE]
        ELSE [name |-> cmds[i].name, restore |-> FALSE]]

\* main, lines 630-640: --list
ListCommands ==
    /\ pc = "main"
    /\ cmd.kind = "list"
    /\ out' = ListLines(GetSourceList)
    /\ pc' = "exit"
    /\ code' = 0
    /\ UNCHANGED <<fsVars, userImports, cmd, buf, errs, exitCode, cb, lis, sig, child,
                   hist, asmVars, auxVars>>

\* the place of a command name in NameOrder; 0 for no name
NameIndex(n) ==
    IF n = "" THEN 0 ELSE CHOOSE i \in 1..Len(NameOrder) : NameOrder[i] = n

\* every entry taken for a source to compile
RecompilableAll(e) == TRUE

\* recompileCommands, lines 320-322: an entry without the .go suffix is skipped
Recompilable(e) == HasGoSuffix(e)

\* recompileCommands, lines 316-329: the loop head.  cmd.name is the entry
\* compiled last; the entries after it that are not skipped are still to do.
\* Line 325 is Compile.
RecompileCommands ==
    /\ \/ pc = "main" /\ cmd.kind = "recompile"
       \/ pc = "recompile"
    /\ LET todo == SelectSeq(GetSourceList,
                             LAMBDA e : Recompilable(e) /\ NameIndex(e.name) > NameIndex(cmd.name))
       IN  IF todo = <<>>
           THEN /\ pc' = "exit"
                /\ code' = 0
                /\ UNCHANGED <<cmd, cb>>
           ELSE /\ cmd' = [cmd EXCEPT !.name = todo[1].name]
                /\ cb' = NoCb
                /\ pc' = "compile"
                /\ UNCHANGED code
    /\ UNCHANGED <<fsVars, userImports, buf, out, errs, exitCode, lis, sig, child,
                   hist, asmVars, auxVars>>

(* ------------------------------ specification -------------------------- *)

\* the steps of the program itself
ProgramStep ==
    \/ BuildRead
    \/ WriteSource
    \/ Compile
    \/ Fetch
    \/ MainClean
    \/ MainExit
    \/ Register
    \/ StartChild
    \/ Wait
    \/ ListenerRecv
    \/ ListenerClean
    \/ ListenerExit
    \/ DeleteCommand
    \/ RestoreCommand
    \/ ExportPrint
    \/ ListCommands
    \/ RecompileCommands

\* the steps of the user, the child and the operating system
EnvStep ==
    \/ Start
    \/ ProcessGone
    \/ ChildExit
    \/ Signal

Next == ProgramStep \/ EnvStep

Spec == Init /\ [][Next]_vars

\* the program's steps are taken as long as one is possible; the compiler, the
\* fetch tool, the child and the signals stay the environment's to decide
FairSpec == Spec /\ WF_vars(ProgramStep)

(* ------------------------------- claims -------------------------------- *)

Range(s) == {s[i] : i \in 1..Len(s)}

TempGone == ~Exists(srcGo[cmd.name]) /\ ~Exists(bin[cmd.name])

\* C1: once a build under a generated name has ended, however it ended,
\* neither src/<generated>.go nor bin/<generated> exists.
C1_TempCleanedAtEnd ==
    (pc = "done" /\ cmd.kind = "build" /\ cmd.temp) => TempGone

\* C2: a compiler run that fails without a `go get` match, on the first attempt
\* or on a retry, makes the top-level compileBinary return false, and the build
\* then ends with a non-zero code without running the binary.
C2_FinalFailureEndsBuild ==
    (cmd.kind = "build" /\ cb.last = "final") =>
        /\ cb.ret = "false"
        /\ child.st = "none"
        /\ pc = "done" => exitCode # {0}

C4_CompileEnds ==
    (pc = "compile") ~> (pc \notin {"compile", "fetch"})

RoundTripDone == pc = "done" /\ cmd.kind = "restore" /\ hist.roundTrip

\* C5 as stated: delete then restore of an Active command leaves src/<name>.go
\* with the content it had, no src/<name>, and bin/<name>.
C5_RoundTripActive ==
    RoundTripDone =>
        \A d \in hist.lastDel :
            /\ srcGo[d.name] = {d.content}
            /\ srcBare[d.name] = {}
            /\ Exists(bin[d.name])

\* C5 as amended: delete then restore of an Active command leaves src/<name>.go
\* with the content it had and no src/<name>; bin/<name> exists, built from that
\* content, exactly when the last compiler run of the restore succeeded.
C5_RoundTripSource ==
    RoundTripDone =>
        \A d \in hist.lastDel :
            /\ srcGo[d.name] = {d.content}
            /\ srcBare[d.name] = {}
            /\ Exists(bin[d.name]) <=> (cb.last = "ok")
            /\ Exists(bin[d.name]) => bin[d.name] = {d.content}

\* a restore that followed the delete of an Active command has rebuilt it
C5_Witness ==
    /\ RoundTripDone
    /\ exitCode = {0}
    /\ cb.last = "ok"
    /\ Exists(bin[cmd.name])
    /\ \E d \in hist.lastDel : d.content = <<CodeLine(MaxContent)>>

ExportOfActive == cmd.kind = "export" /\ Exists(hist.pre.src) /\ Exists(hist.pre.bin)

StoreTouched ==
    \/ srcGo[cmd.name] # hist.pre.src
    \/ srcBare[cmd.name] # hist.pre.bare
    \/ bin[cmd.name] # hist.pre.bin

C7_SignalExitsOne ==
    (pc = "done" /\ cmd.kind = "build" /\ cmd.temp /\ sig.caught /\ sig.midRun) =>
        /\ exitCode = {1}
        /\ cmd.temp => TempGone

\* C8: a child that ran to completion with code c, the parent having got no
\* signal, makes the parent exit with c, the temporary files gone.
C8_ExitCodeMirrorsChild ==
    (pc = "done" /\ cmd.kind = "build" /\ child.st = "exited" /\ ~sig.seen) =>
        /\ exitCode = {child.code}
        /\ cmd.temp => TempGone

\* a temporary command's child has ended with a code other than 0 and 1
C8_Witness ==
    /\ pc = "done"
    /\ cmd.kind = "build"
    /\ cmd.temp
    /\ child.st = "exited"
    /\ child.code = MaxExit
    /\ ~sig.seen
    /\ exitCode = {MaxExit}

(* ------------------------- claims on the command store ------------------ *)

\* C12: a failed file-system step of a lifecycle operation (the source cannot
\* be opened, a rename of delete or restore fails) aborts the command: the
\* process ends with a non-zero code and the store is as the command found it.
C12_FsFailureAborts ==
    (cmd.kind \in {"delete", "restore", "export"} /\ errs \cap {"open", "rename"} # {}) =>
        /\ pc = "done"
        /\ exitCode # {0}
        /\ srcGo[cmd.name] = hist.pre.src
        /\ srcBare[cmd.name] = hist.pre.bare
        /\ bin[cmd.name] = hist.pre.bin

\* a command SoftDeleted when the recompile began: only the extension-less source
SoftDeletedAtStart(n) ==
    /\ Exists(hist.store.bare[n])
    /\ ~Exists(hist.store.src[n])
    /\ ~Exists(hist.store.bin[n])

C18_OneLifecycleState ==
    \A n \in Names :
        /\ ~(Exists(srcGo[n]) /\ Exists(srcBare[n]))
        /\ ~({[name |-> n, restore |-> TRUE], [name |-> n, restore |-> FALSE]}
                \subseteq Range(ListLines(GetSourceList)))

\* C20: once compileBinary has returned in a build under a user-supplied name,
\* a binary bin/<name> that exists is the one built from src/<name>.go as it is.
C20_BinaryMatchesSource ==
    (cmd.kind = "build" /\ ~cmd.temp /\ cb.last \in {"ok", "final"}) =>
        (Exists(bin[cmd.name]) => bin[cmd.name] = srcGo[cmd.name])

\* C21: no delete, restore or export destroys stored source content: a delete
\* (alone or as the last step of an export) leaves an extension-less src/<name>
\* that held other content than src/<name>.go as it found it, and a restore
\* leaves the src/<name>.go of an Active command as it found it.
C21_NoStoredSourceDestroyed ==
    \A n \in Names :
        cmd.name = n =>
            /\ (/\ cmd.kind \in {"delete", "export"}
                /\ Exists(hist.pre.bare)
                /\ hist.pre.bare # hist.pre.src) => srcBare[n] = hist.pre.bare
            /\ (/\ cmd.kind = "restore"
                /\ Exists(hist.pre.src)
                /\ Exists(hist.pre.bin)) => srcGo[n] = hist.pre.src

(* ---------------------------- import resolver -------------------------- *)

\* the characters of a fragment: two letters, the dot and the blank
Alphabet == {"a", "b", ".", " "}

\* \w of the pattern (\w+)\. of line 58
IsWord(c) == c \in {"a", "b"}

Fragments == UNION {[1..k -> Alphabet] : k \in 0..MaxLen}

\* the alias tables a project may come with: util.ImportsMap ...
BaseTables ==
    { (<<"a">> :> << <<"a">> >>) @@ (<<"b">> :> << <<"c">>, <<"b">> >>),
      (<<"a">> :> << <<"c">>, <<"a">> >>) }

\* ... and imports.json (no file, or a file without entries, is the empty table)
UserTables ==
    { <<>>,
      (<<"a">> :> << <<"r">> >>),
      (<<"b">> :> <<>>),
      (<<"a">> :> << <<"c">>, <<"a">> >>) @@ (<<"b">> :> << <<"r">> >>) }

\* the built-in entries kept where both tables have the key
MergeImportsBaseFirst(base, user) == base @@ user

\* assembleSourceFile, lines 51-56: the user's entries are written over
\* util.ImportsMap
MergeImports(base, user) == user @@ base

\* util.ImportsMap[k], line 63: a missing key reads as the empty string
Lookup(table, k) == IF k \in DOMAIN table THEN table[k] ELSE <<>>

\* the last character of the run of word characters that holds position i
RECURSIVE RunEnd(_, _)
RunEnd(frag, i) ==
    IF i < Len(frag) /\ IsWord(frag[i + 1]) THEN RunEnd(frag, i + 1) ELSE i

\* pkgMatcher.FindAllStringSubmatch(code, -1), lines 58-59: the identifiers of
\* the successive leftmost matches of (\w+)\. from position i on
RECURSIVE FindAllFrom(_, _)
FindAllFrom(frag, i) ==
    IF i > Len(frag) THEN <<>>
    ELSE IF ~IsWord(frag[i]) THEN FindAllFrom(frag, i + 1)
    ELSE LET j == RunEnd(frag, i)
         IN  IF j < Len(frag) /\ frag[j + 1] = "."
             THEN <<SubSeq(frag, i, j)>> \o FindAllFrom(frag, j + 2)
             ELSE FindAllFrom(frag, j + 1)

FindAll(frag) == FindAllFrom(frag, 1)

\* every declaration written with its alias
FormatImportAliased(k, v) == [alias |-> k, path |-> v]

\* lines 68-72: the declaration for identifier k with path v, `k "v"` or `"v"`;
\* a declaration without alias has the empty alias
FormatImport(k, v) ==
    IF Base(v) # k THEN [alias |-> k, path |-> v] ELSE [alias |-> <<>>, path |-> v]

\* the append without the slices.Contains test
AddImportAlways(list, v) == Append(list, v)

\* lines 74-76: append unless slices.Contains
AddImport(list, v) ==
    IF \E i \in 1..Len(list) : list[i] = v THEN list ELSE Append(list, v)

\* lines 60-79: the loop over the first n matches
RECURSIVE ImportsOf(_, _, _)
ImportsOf(matches, table, n) ==
    IF n = 0 THEN <<>>
    ELSE LET sofar == ImportsOf(matches, table, n - 1)
             k == matches[n]
             v == Lookup(table, k)
         IN  IF v # <<>> THEN AddImport(sofar, FormatImport(k, v)) ELSE sofar

\* assembleSourceFile, lines 48-79: the import list for a fragment
FormattedImports(frag, table) == ImportsOf(FindAll(frag), table, Len(FindAll(frag)))

\* a process starts with a project's tables and a fragment to assemble
InitImports ==
    /\ srcGo = [n \in AllNames |-> {}]
    /\ srcBare = [n \in AllNames |-> {}]
    /\ bin = [n \in AllNames |-> {}]
    /\ userImports \in UserTables
    /\ cmd = NoCmd
    /\ pc = "idle"
    /\ buf = <<>>
    /\ out = <<>>
    /\ errs = {}
    /\ exitCode = {}
    /\ code = 0
    /\ cb = NoCb
    /\ lis = "off"
    /\ sig = NoSig
    /\ child = NoChild
    /\ hist = NoHist
    /\ builtin \in BaseTables
    /\ importsMap = builtin
    /\ fragment \in Fragments
    /\ formattedImports = <<>>
    /\ resolves = 0
    /\ AuxInit

\* assembleSourceFile(code), lines 44-84: merge the user's table, scan, resolve
Assemble ==
    /\ resolves < MaxResolves
    /\ importsMap' = MergeImports(importsMap, userImports)
    /\ formattedImports' = FormattedImports(fragment, MergeImports(importsMap, userImports))
    /\ resolves' = resolves + 1
    /\ UNCHANGED <<fsVars, userImports, cmd, pc, buf, out, errs, exitCode, code, cb,
                   lis, sig, child, hist, builtin, fragment, auxVars>>

NextImports == Assemble

SpecImports == InitImports /\ [][NextImports]_vars

\* the starts of the identifier-dot occurrences of a fragment: a maximal run of
\* word characters with a dot right after it
OccurrenceStarts(frag) ==
    {i \in 1..Len(frag) :
        /\ IsWord(frag[i])
        /\ i = 1 \/ ~IsWord(frag[i - 1])
        /\ \E j \in i..Len(frag) - 1 :
              /\ \A m \in i..j : IsWord(frag[m])
              /\ frag[j + 1] = "."}

IdentAt(frag, i) ==
    SubSeq(frag, i, CHOOSE j \in i..Len(frag) :
                        /\ \A m \in i..j : IsWord(frag[m])
                        /\ j = Len(frag) \/ ~IsWord(frag[j + 1]))

\* the occurrences whose identifier has an entry, and their declarations
FoundStarts(frag, table) ==
    {i \in OccurrenceStarts(frag) : Lookup(table, IdentAt(frag, i)) # <<>>}

DeclAt(frag, table, i) ==
    FormatImport(IdentAt(frag, i), Lookup(table, IdentAt(frag, i)))

FirstSeen(frag, table, d) ==
    CHOOSE i \in FoundStarts(frag, table) :
        /\ DeclAt(frag, table, i) = d
        /\ \A m \in FoundStarts(frag, table) : DeclAt(frag, table, m) = d => i <= m

\* list is the reference list: the declarations of the found occurrences, each
\* once, in the order of their first occurrence
IsReferenceList(list, frag, table) ==
    /\ \A p, q \in 1..Len(list) : p # q => list[p] # list[q]
    /\ Range(list) = {DeclAt(frag, table, i) : i \in FoundStarts(frag, table)}
    /\ \A p, q \in 1..Len(list) :
          p < q => FirstSeen(frag, table, list[p]) < FirstSeen(frag, table, list[q])

\* C9: the import list assembleSourceFile builds is the reference list: one
\* declaration per referenced identifier with an entry, in first-seen order.
C9_ImportsAreFirstSeenDedup ==
    resolves > 0 => IsReferenceList(formattedImports, fragment, importsMap)

\* an identifier with an entry is referenced twice and declared once
C9_Witness ==
    /\ resolves > 0
    /\ Len(FindAll(fragment)) = 2
    /\ FindAll(fragment)[1] = FindAll(fragment)[2]
    /\ Len(formattedImports) = 1

\* C10: for an identifier in both tables the path used is the user's, at every
\* resolution of the process.
C10_UserEntryWins ==
    resolves > 0 =>
        \A k \in DOMAIN builtin \cap DOMAIN userImports :
            /\ importsMap[k] = userImports[k]
            /\ k \in Range(FindAll(fragment)) =>
                  /\ userImports[k] # <<>> =>
                        FormatImport(k, userImports[k]) \in Range(formattedImports)
                  /\ builtin[k] # userImports[k] =>
                        FormatImport(k, builtin[k]) \notin Range(formattedImports)

\* a fragment names an identifier both tables map, to different paths, and the
\* process has resolved twice
C10_Witness ==
    /\ resolves = 2
    /\ \E k \in DOMAIN builtin \cap DOMAIN userImports :
          /\ k \in Range(FindAll(fragment))
          /\ builtin[k] # userImports[k]
          /\ userImports[k] # <<>>

\* C16: an identifier of the fragment whose entry p ends in the identifier is
\* declared by the quoted path alone, any other by alias and quoted path, and
\* nothing is declared for an identifier whose entry is absent or empty.
C16_DeclarationForm ==
    resolves > 0 =>
        /\ \A k \in Range(FindAll(fragment)) :
              LET p == Lookup(importsMap, k)
              IN  p # <<>> =>
                    IF p[Len(p)] = k
                    THEN [alias |-> <<>>, path |-> p] \in Range(formattedImports)
                    ELSE [alias |-> k, path |-> p] \in Range(formattedImports)
        /\ \A d \in Range(formattedImports) :
              \E k \in Range(FindAll(fragment)) :
                  /\ k \in DOMAIN importsMap
                  /\ importsMap[k] # <<>>
                  /\ d.path = importsMap[k]
                  /\ d.alias = IF d.path[Len(d.path)] = k THEN <<>> ELSE k

\* one fragment has given a declaration by path alone and one with an alias
C16_Witness ==
    /\ resolves > 0
    /\ \E d \in Range(formattedImports) : d.alias = <<>>
    /\ \E d \in Range(formattedImports) : d.alias # <<>>

(* --------------------------------- goGet -------------------------------- *)

\* how many goGet calls a run of the fetch specification makes
MaxGets == 2

\* the package paths handed to --goget: "a", "c/b", "n/x" and "m/x"
GetPaths ==
    { << <<"a">> >>, << <<"c">>, <<"b">> >>, << <<"n">>, <<"x">> >>, << <<"m">>, <<"x">> >> }

\* a project with some imports.json, before any fetch
InitGoGet ==
    /\ srcGo = [n \in AllNames |-> {}]
    /\ srcBare = [n \in AllNames |-> {}]
    /\ bin = [n \in AllNames |-> {}]
    /\ userImports \in UserTables
    /\ cmd = NoCmd
    /\ pc = "idle"
    /\ buf = <<>>
    /\ out = <<>>
    /\ errs = {}
    /\ exitCode = {}
    /\ code = 0
    /\ cb = NoCb
    /\ lis = "off"
    /\ sig = NoSig
    /\ child = NoChild
    /\ hist = NoHist
    /\ builtin = BaseTable
    /\ importsMap = BaseTable
    /\ fragment = <<>>
    /\ formattedImports = <<>>
    /\ resolves = 0
    /\ AuxInit

\* main, lines 643-646: an invocation with --goget pkg, and goGet(pkg), lines
\* 122-147.  The stat of go.mod, `go mod tidy` or `go get` failing ends the
\* process through check(err, 2, ..) before imports.json is read.
GoGet ==
    /\ pc \in {"idle", "done"}
    /\ gets.n < MaxGets
    /\ \E pkg \in GetPaths, ok \in BOOLEAN :
          /\ gets' = [n |-> gets.n + 1, pkg |-> pkg, ok |-> ok, before |-> userImports]
          /\ cmd' = [NoCmd EXCEPT !.kind = "goget"]
          /\ IF ok
             THEN /\ userImports' = GoGetTable(userImports, pkg)
                  /\ errs' = {}
                  /\ ProcessExit(0)
             ELSE /\ errs' = {"goget"}
                  /\ ProcessExit(1)
                  /\ UNCHANGED userImports
    /\ UNCHANGED <<fsVars, buf, out, cb, sig, child, hist, asmVars, savedErrors, arg,
                   unit, term, fwd>>

NextGoGet == GoGet

SpecGoGet == InitGoGet /\ [][NextGoGet]_vars

\* C15: a goGet(P) whose fetch failed leaves the persisted table as it was; one
\* that succeeded leaves the table it found with the one entry
\* <final segment of P> -> P added or replaced and every other entry as it was.
C15_GoGetWritesOneEntry ==
    gets.n > 0 =>
        IF gets.ok
        THEN /\ DOMAIN userImports = DOMAIN gets.before \cup {gets.pkg[Len(gets.pkg)]}
             /\ userImports[gets.pkg[Len(gets.pkg)]] = gets.pkg
             /\ \A k \in DOMAIN gets.before :
                   k # gets.pkg[Len(gets.pkg)] => userImports[k] = gets.before[k]
        ELSE userImports = gets.before

\* a fetch has replaced one entry of a table that holds another entry as well
C15_Witness ==
    /\ gets.n > 0
    /\ gets.ok
    /\ gets.pkg[Len(gets.pkg)] \in DOMAIN gets.before
    /\ gets.before[gets.pkg[Len(gets.pkg)]] # gets.pkg
    /\ \E k \in DOMAIN gets.before : k # gets.pkg[Len(gets.pkg)]

(* --------------------------- fragments entering ------------------------- *)

\* longest fragment or file, in lines
MaxLines == 3

\* the texts of a file or of an inline fragment: lines with and without the
\* "#!" prefix, in any order
EntryTexts ==
    UNION {[1..k -> {ShebangLine} \cup {CodeLine(i) : i \in 1..MaxContent}] : k \in 1..MaxLines}

\* the ways a fragment enters main (lines 732-741): --file <path>, --name of a
\* stored command, --code <path of a file>, --code <text>
EntryWays == {"file", "stored", "codefile", "inline"}

\* a line of script.tmpl around the fragment
TemplateLine == CodeLine(0)

\* processTemplate, lines 206-221: the template wraps the fragment verbatim
ProcessTemplate(frag) == <<TemplateLine>> \o frag \o <<TemplateLine>>

\* a process about to build the fragment given by arg
InitEntry ==
    /\ arg \in [way : EntryWays, text : EntryTexts]
    /\ srcGo = [n \in AllNames |-> IF n = "foo" /\ arg.way = "stored" THEN {arg.text} ELSE {}]
    /\ srcBare = [n \in AllNames |-> {}]
    /\ bin = [n \in AllNames |-> {}]
    /\ userImports = <<>>
    /\ cmd = [kind |-> "build", name |-> IF arg.way = "stored" THEN "foo" ELSE "",
              temp |-> FALSE, exec |-> FALSE, input |-> {}]
    /\ pc = "main"
    /\ buf = <<>>
    /\ out = <<>>
    /\ errs = {}
    /\ exitCode = {}
    /\ code = 0
    /\ cb = NoCb
    /\ lis = "off"
    /\ sig = NoSig
    /\ child = NoChild
    /\ hist = NoHist
    /\ builtin = BaseTable
    /\ importsMap = BaseTable
    /\ fragment = <<>>
    /\ formattedImports = <<>>
    /\ resolves = 0
    /\ savedErrors = <<>>
    /\ unit = NoUnit
    /\ gets = NoGets
    /\ term = NoTerm
    /\ fwd = NoFwd

\* main, lines 732-741, and assembleSourceFile, lines 38-43: the fragment is
\* read with readSourceFile when it comes from a file, and taken as typed when
\* --code is not the path of a file
EntryRead ==
    /\ pc = "main"
    /\ arg.way \in EntryWays
    /\ buf' = IF arg.way = "inline" THEN arg.text ELSE ReadSourceFile(arg.text)
    /\ pc' = IF arg.way \in {"codefile", "inline"} THEN "render" ELSE "name"
    /\ UNCHANGED <<fsVars, userImports, cmd, out, errs, exitCode, code, cb, lis, sig,
                   child, hist, asmVars, savedErrors, arg, unit, gets, term, fwd>>

\* assembleSourceFile, lines 81-86: buf = processTemplate(repl).  The import
\* block of the unit is the subject of SpecImports.
RenderUnit ==
    /\ pc = "render"
    /\ unit' = [lines |-> ProcessTemplate(buf), st |-> "rendered"]
    /\ buf' = ProcessTemplate(buf)
    /\ pc' = "format"
    /\ UNCHANGED <<fsVars, userImports, cmd, out, errs, exitCode, code, cb, lis, sig,
                   child, hist, asmVars, savedErrors, arg, gets, term, fwd>>

\* formatCode(buf), lines 91-98: format.Source succeeds and the buffer is
\* rewritten (the same lines, in canonical form), or it fails and
\* check(err, 1, "Code formatting failed") prints the diagnostic at once and
\* returns true, the buffer staying as rendered
FormatCode ==
    /\ pc = "format"
    /\ \/ /\ unit' = [unit EXCEPT !.st = "formatted"]
          /\ UNCHANGED errs
       \/ /\ unit' = [unit EXCEPT !.st = "unformatted"]
          /\ errs' = errs \cup {"format"}
    /\ pc' = "name"
    /\ UNCHANGED <<fsVars, userImports, cmd, buf, out, exitCode, code, cb, lis, sig,
                   child, hist, asmVars, savedErrors, arg, gets, term, fwd>>

\* main, lines 748-755: the name to build under
EntryName ==
    /\ pc = "name"
    /\ cmd' = IF cmd.name = "" THEN [cmd EXCEPT !.name = TmpName, !.temp = TRUE] ELSE cmd
    /\ pc' = "write"
    /\ UNCHANGED <<fsVars, userImports, buf, out, errs, exitCode, code, cb, lis, sig,
                   child, hist, asmVars, auxVars>>

\* the build of one fragment: read, render, format, then main's lines 757-799
NextEntry ==
    \/ EntryRead
    \/ RenderUnit
    \/ FormatCode
    \/ EntryName
    \/ WriteSource
    \/ Compile
    \/ Fetch
    \/ MainClean
    \/ MainExit

SpecEntry == InitEntry /\ [][NextEntry]_vars

\* the source file src/<name>.go has been written and handed to the compiler
UnitWritten == arg.way \in EntryWays /\ pc \in {"compile", "fetch"}

\* C11: whichever way the fragment came in, the source unit that is written and
\* compiled has no line with the "#!" prefix.
C11_NoShebangInUnit ==
    UnitWritten =>
        \A l \in Range(Content(srcGo[cmd.name])) : ~HasShebangPrefix(l)

\* C13: a formatter failure is recorded, the unformatted rendering is saved and
\* compiled, and its diagnostic is on the error stream only after the build.
C13_FormatFailureDeferred ==
    unit.st = "unformatted" =>
        /\ "format" \in Range(savedErrors)
        /\ UnitWritten => srcGo[cmd.name] = {unit.lines}
        /\ "format" \in errs => (cb.last \in {"ok", "final"} /\ pc \notin {"compile", "fetch"})

\* the lines of a file other than a "#!" line in first position
WithoutLeadingShebang(text) ==
    IF text # <<>> /\ HasShebangPrefix(text[1]) THEN Tail(text) ELSE text

\* C19: what readSourceFile returns for a file is the file without a "#!" line
\* in first position: every other line is kept, in order.
C19_OnlyLeadingShebangRemoved ==
    (arg.way \in {"file", "stored", "codefile"} /\ pc \in {"render", "name"}
        /\ unit.st = "none") =>
        buf = WithoutLeadingShebang(arg.text)

(* --------------------------- piped passthrough -------------------------- *)
(* The execute step of src/unnamed/part_000, lines 307-333: the child's     *)
(* input is a pipe fed by a goroutine, its output is captured.              *)

\* a line of terminal input: blank (nothing but white space) or not
TermLines ==
    {[blank |-> TRUE, id |-> 0]} \cup {[blank |-> FALSE, id |-> i] : i \in 1..MaxContent}

\* the inputs a terminal or a pipe can hold: some lines, the last of which may
\* end with the end of input in place of a newline
TermInputs ==
    {[text |-> t, nl |-> b, pos |-> 0] :
        t \in UNION {[1..k -> TermLines] : k \in 0..MaxLines}, b \in BOOLEAN}

\* what the child writes to its output and error streams
ChildOutput == <<CodeLine(1)>>

\* a process that has built bin/<name> and is about to execute it
InitPipe ==
    /\ term \in {i \in TermInputs : i.text = <<>> => i.nl}
    /\ fwd = NoFwd
    /\ srcGo = [n \in AllNames |-> {}]
    /\ srcBare = [n \in AllNames |-> {}]
    /\ bin = [n \in AllNames |-> {}]
    /\ userImports = <<>>
    /\ cmd = [kind |-> "pipe", name |-> TmpName, temp |-> FALSE, exec |-> TRUE, input |-> {}]
    /\ pc = "main"
    /\ buf = <<>>
    /\ out = <<>>
    /\ errs = {}
    /\ exitCode = {}
    /\ code = 0
    /\ cb = NoCb
    /\ lis = "off"
    /\ sig = NoSig
    /\ child = NoChild
    /\ hist = NoHist
    /\ builtin = BaseTable
    /\ importsMap = BaseTable
    /\ fragment = <<>>
    /\ formattedImports = <<>>
    /\ resolves = 0
    /\ savedErrors = <<>>
    /\ arg = NoArg
    /\ unit = NoUnit
    /\ gets = NoGets

\* part_000, lines 310-324: cmd.StdinPipe() and the start of the goroutine
PipeSpawn ==
    /\ pc = "main"
    /\ cmd.kind = "pipe"
    /\ fwd' = [st |-> "run", written |-> <<>>]
    /\ pc' = "combined"
    /\ UNCHANGED <<fsVars, userImports, cmd, buf, out, errs, exitCode, code, cb, lis,
                   sig, child, hist, asmVars, savedErrors, arg, unit, gets, term>>

\* part_000, line 326: cmd.CombinedOutput() starts the child ...
PipeRunChild ==
    /\ pc = "combined"
    /\ child' = [st |-> "running", code |-> 0]
    /\ pc' = "wait"
    /\ UNCHANGED <<fsVars, userImports, cmd, buf, out, errs, exitCode, code, cb, lis,
                   sig, hist, asmVars, auxVars>>

\* ... and returns once the child has ended; lines 327-331 print what it wrote,
\* and main returns
PipePrint ==
    /\ pc = "wait"
    /\ cmd.kind = "pipe"
    /\ child.st = "exited"
    /\ out' = ChildOutput
    /\ code' = 0
    /\ pc' = "exit"
    /\ UNCHANGED <<fsVars, userImports, cmd, buf, errs, exitCode, cb, lis, sig, child,
                   hist, asmVars, auxVars>>

\* stdin.ReadString('\n') with i - 1 lines read (part_000, line 318): the i-th
\* line with a nil error, or, at the end of input, what is left of the text
\* with io.EOF
ReadString(t, i) ==
    IF i > Len(t.text) THEN [line |-> <<>>, err |-> TRUE]
    ELSE [line |-> <<t.text[i]>>, err |-> (i = Len(t.text) /\ ~t.nl)]

\* part_000, lines 317-323: one turn of the goroutine's loop.  A write to the
\* pipe of a child that has ended fails, and the error is not looked at.
Forward ==
    /\ Running
    /\ fwd.st = "run"
    /\ LET r == ReadString(term, term.pos + 1)
       IN  /\ term' = [term EXCEPT !.pos = term.pos + Len(r.line)]
           /\ IF r.err \/ r.line = <<>> \/ r.line[1].blank
              THEN fwd' = [fwd EXCEPT !.st = "closing"]
              ELSE fwd' = [fwd EXCEPT !.written =
                              IF child.st = "exited" THEN @ ELSE @ \o r.line]
    /\ UNCHANGED <<fsVars, userImports, cmd, pc, buf, out, errs, exitCode, code, cb,
                   lis, sig, child, hist, asmVars, savedErrors, arg, unit, gets>>

\* part_000, line 316: the deferred cmdStdin.Close()
ForwardClose ==
    /\ Running
    /\ fwd.st = "closing"
    /\ fwd' = [fwd EXCEPT !.st = "closed"]
    /\ UNCHANGED <<fsVars, userImports, cmd, pc, buf, out, errs, exitCode, code, cb,
                   lis, sig, child, hist, asmVars, savedErrors, arg, unit, gets, term>>

NextPipe ==
    \/ PipeSpawn
    \/ PipeRunChild
    \/ ChildExit
    \/ PipePrint
    \/ MainExit
    \/ Forward
    \/ ForwardClose

SpecPipe == InitPipe /\ [][NextPipe]_vars

\* the lines of an input that come before its first blank line
RECURSIVE LinesBeforeBlank(_)
LinesBeforeBlank(text) ==
    IF text = <<>> \/ text[1].blank THEN <<>>
    ELSE <<text[1]>> \o LinesBeforeBlank(Tail(text))

\* C17: when the forwarding task closes the child's input it has written to it
\* the input lines before the first blank line or the end of input, in order;
\* and the child's output is printed only once the child has ended.
C17_ForwardsLinesBeforeBlank ==
    /\ fwd.st = "closed" => fwd.written = LinesBeforeBlank(term.text)
    /\ fwd.st \in {"run", "closing"} =>
          \E k \in 0..Len(term.text) : fwd.written = SubSeq(LinesBeforeBlank(term.text), 1, k)
    /\ out # <<>> => child.st = "exited"

====
